---- MODULE Spec2Model ----
(***************************************************************************)
(* A model of two pieces of edx-platform glue code:                        *)
(*   common/djangoapps/third_party_auth/decorators.py                      *)
(*     allow_frame_from_whitelisted_url, xframe_allow_whitelisted,         *)
(*     tpa_hint_ends_existing_session                                      *)
(*   cms/djangoapps/contentstore/management/commands/toggle_assets_lock.py *)
(*     Command.handle, toggle_course_assets_lock                           *)
(*                                                                         *)
(* Text (URLs, header values, query strings, course ids) is a sequence of  *)
(* chunks.  A chunk is either one delimiter character (":", "/", "?", "#", *)
(* ";", "@", "&", "=", "+", " ", "-") or a run of characters holding no    *)
(* delimiter ("https", "idp", "%26").  Every string operation of the code  *)
(* (find, split, rstrip, join, format, quote) acts on delimiters or on     *)
(* whole runs, so it is computed on chunks as it is on characters.         *)
(***************************************************************************)
EXTENDS Integers, Sequences, FiniteSets, TLC

VARIABLES
    features,      \* settings.FEATURES['ENABLE_THIRD_PARTY_AUTH']
    sso_urls,      \* SAMLProviderData.objects.values_list('sso_url', flat=True), as a set
    allowed_from,  \* settings.THIRD_PARTY_AUTH_FRAME_ALLOWED_FROM_URL
    lti_configs,   \* rows of LTIProviderConfig, oldest first
    call,          \* the frame view call just made: request, view response, response
    providers,     \* the provider registry: what Registry.get answers per provider id
    hop,           \* the request of the redirect chain being handled, and what came of it
    store,         \* contentstore: asset key -> course and locked attribute
    cache,         \* contentserver cache: asset key -> the cached locked value
    courses,       \* modulestore().get_courses(), the listed course keys
    cmd,           \* the run of the management command just made and what it did
    tpc,           \* the toggler process: where it is in toggle_course_assets_lock
    rpc            \* the asset requests in flight: what each has read from the store

vars == <<features, sso_urls, allowed_from, lti_configs, call, providers, hop,
          store, cache, courses, cmd, tpc, rpc>>

frameVars == <<features, sso_urls, allowed_from, lti_configs, call>>
hintVars == <<providers, hop>>
lockVars == <<store, cache, courses, cmd>>
concVars == <<tpc, rpc>>

(***************************************************************************)
(* Strings                                                                 *)
(***************************************************************************)

Min(S) == CHOOSE x \in S : \A y \in S : x <= y
Max(S) == CHOOSE x \in S : \A y \in S : x >= y

\* s.find(c in C), 1-based, from position `from`; 0 when there is none
Find(s, C, from) ==
    LET I == {i \in from..Len(s) : s[i] \in C}
    IN  IF I = {} THEN 0 ELSE Min(I)

\* s.rfind(c), 1-based; 0 when there is none
RFind(s, C) ==
    LET I == {i \in 1..Len(s) : s[i] \in C}
    IN  IF I = {} THEN 0 ELSE Max(I)

\* s[i:] of Python for the 1-based position i
From(s, i) == SubSeq(s, i, Len(s))

\* s[:i] of Python: the chunks before the 1-based position i
Before(s, i) == SubSeq(s, 1, i - 1)

\* str.rstrip('/'): every trailing slash goes
Rstrip(s) ==
    LET I == {i \in 1..Len(s) : s[i] # "/"}
    IN  IF I = {} THEN <<>> ELSE SubSeq(s, 1, Max(I))

\* str.lower() on the chunks that hold upper-case letters
Lower(c) ==
    CASE c = "HTTPS" -> "https"
      [] c = "LMS" -> "lms"
      [] OTHER -> c

LowerAll(s) == [i \in 1..Len(s) |-> Lower(s[i])]

\* ' '.join(list of strings)
RECURSIVE Join(_)
Join(list) ==
    IF list = <<>> THEN <<>>
    ELSE IF Len(list) = 1 THEN list[1]
    ELSE list[1] \o <<" ">> \o Join(Tail(list))

\* all sequences over S of length at most n
RECURSIVE SeqsUpTo(_, _)
SeqsUpTo(S, n) ==
    IF n = 0 THEN {<<>>}
    ELSE LET shorter == SeqsUpTo(S, n - 1)
         IN  shorter \cup {Append(s, x) : s \in shorter, x \in S}

(***************************************************************************)
(* urlparse / urlunparse (Python 2 urlparse module)                        *)
(***************************************************************************)

\* runs of characters that are all scheme characters (letters, digits, "+-.")
SchemeChunks == {"https", "HTTPS", "idp", "evil", "sso", "lms", "LMS", "x", "80", "user"}
DigitChunks == {"80"}
\* the schemes of urlparse.uses_params and urlparse.uses_netloc that chunks can spell
uses_params == {<<"https">>, <<"http">>, <<"ftp">>, <<>>}
uses_netloc == {<<"https">>, <<"http">>, <<"ftp">>, <<>>}

\* s.split(c, 1) at the 1-based position i of c: what is before and what is after
SplitAt(s, i) ==
    IF i = 0 THEN [head |-> s, tail |-> <<>>]
    ELSE [head |-> Before(s, i), tail |-> From(s, i + 1)]

SplitOn(s, c) == SplitAt(s, Find(s, {c}, 1))

\* urlsplit: the scheme is what stands before the first ":" when that is scheme
\* characters only and what follows is not a port number
SplitSchemeAt(url, i) ==
    IF /\ i > 1
       /\ \A k \in 1..(i - 1) : url[k] \in SchemeChunks
       /\ (i = Len(url) \/ \E k \in (i + 1)..Len(url) : url[k] \notin DigitChunks)
    THEN [scheme |-> LowerAll(Before(url, i)), rest |-> From(url, i + 1)]
    ELSE [scheme |-> <<>>, rest |-> url]

SplitScheme(url) == SplitSchemeAt(url, Find(url, {":"}, 1))

\* _splitnetloc(url, 2): the netloc ends at the first of "/?#"
SplitNetlocAt(url, delim) ==
    IF delim = 0 THEN [netloc |-> From(url, 3), rest |-> <<>>]
    ELSE [netloc |-> SubSeq(url, 3, delim - 1), rest |-> From(url, delim)]

SplitNetloc(url) ==
    IF Len(url) >= 2 /\ url[1] = "/" /\ url[2] = "/"
    THEN SplitNetlocAt(url, Find(url, {"/", "?", "#"}, 3))
    ELSE [netloc |-> <<>>, rest |-> url]

UrlsplitQuery(scheme, netloc, fragment, q) ==
    [scheme |-> scheme, netloc |-> netloc, path |-> q.head,
     query |-> q.tail, fragment |-> fragment]

UrlsplitFragment(scheme, netloc, f) ==
    UrlsplitQuery(scheme, netloc, f.tail, SplitOn(f.head, "?"))

UrlsplitNetloc(scheme, n) == UrlsplitFragment(scheme, n.netloc, SplitOn(n.rest, "#"))

UrlsplitScheme(s) == UrlsplitNetloc(s.scheme, SplitNetloc(s.rest))

\* urlsplit(url): scheme, netloc, path, query, fragment
Urlsplit(url) == UrlsplitScheme(SplitScheme(url))

\* _splitparams(url): the ";params" of the last path segment
SplitparamsAt(url, slash) ==
    SplitAt(url, IF slash > 0 THEN Find(url, {";"}, slash) ELSE Find(url, {";"}, 1))

Splitparams(url) == SplitparamsAt(url, RFind(url, {"/"}))

UrlparseParams(t, sp) ==
    [scheme |-> t.scheme, netloc |-> t.netloc, path |-> sp.head,
     params |-> sp.tail, query |-> t.query, fragment |-> t.fragment]

UrlparseSplit(t) ==
    UrlparseParams(t, IF t.scheme \in uses_params /\ Find(t.path, {";"}, 1) > 0
                      THEN Splitparams(t.path)
                      ELSE [head |-> t.path, tail |-> <<>>])

\* urlparse(url): scheme, netloc, path, params, query, fragment
Urlparse(url) == UrlparseSplit(Urlsplit(url))

\* urlunsplit: "//" and the netloc go before the path when there is a netloc, or
\* the scheme takes one and the path does not start with "//"
UrlunsplitNetloc(scheme, netloc, path) ==
    IF \/ netloc # <<>>
       \/ /\ scheme # <<>>
          /\ scheme \in uses_netloc
          /\ ~(Len(path) >= 2 /\ path[1] = "/" /\ path[2] = "/")
    THEN <<"/", "/">> \o netloc \o
         (IF path # <<>> /\ path[1] # "/" THEN <<"/">> \o path ELSE path)
    ELSE path

\* urlunparse((scheme, netloc, path, '', '', '')), through urlunsplit
Urlunparse(scheme, netloc, path) ==
    IF scheme # <<>>
    THEN scheme \o <<":">> \o UrlunsplitNetloc(scheme, netloc, path)
    ELSE UrlunsplitNetloc(scheme, netloc, path)

\* netloc.split('@')[-1]
AfterUserinfo(netloc) == From(netloc, RFind(netloc, {"@"}) + 1)

HostnameOf(netloc) ==
    IF Find(netloc, {":"}, 1) > 0 THEN {LowerAll(SplitOn(netloc, ":").head)}
    ELSE IF netloc = <<>> THEN {}
    ELSE {LowerAll(netloc)}

\* ParseResult.hostname: the set holding the hostname, empty for None
Hostname(parsed) == HostnameOf(AfterUserinfo(parsed.netloc))

(***************************************************************************)
(* Frame decorators                                                        *)
(***************************************************************************)

XFO == "X-Frame-Options"
CSP == "Content-Security-Policy"

DENY == <<"DENY">>
ALLOW == <<"ALLOW">>
FrameAncestorsNone == <<"frame-ancestors ", "'none'">>

\* resp[name] = value of an HttpResponse's headers
SetHeader(headers, name, value) == (name :> value) @@ headers

\* request.META.get('HTTP_REFERER') is not None
HasReferer(META) == "HTTP_REFERER" \in DOMAIN META

\* the most recent row of each lti_consumer_key (ConfigurationModelManager.current_set)
CurrentSet(configs) ==
    {configs[i] : i \in {j \in 1..Len(configs) :
        \A k \in (j + 1)..Len(configs) : configs[k].key # configs[j].key}}

\* faulty variant: the trailing slashes of the path are kept
ReconstructReferer_KeepingSlashes(parsed_url) ==
    Urlunparse(parsed_url.scheme, parsed_url.netloc, parsed_url.path)

\* lines 66-70: the referer without query string and trailing slash
ReconstructReferer(parsed_url) ==
    Urlunparse(parsed_url.scheme, parsed_url.netloc, Rstrip(parsed_url.path))

RefererUrl(referer) == ReconstructReferer(Urlparse(referer))

\* lines 71-72: the SSO urls, each without its trailing slashes
StrippedSsoUrls(urls) == {Rstrip(u) : u \in urls}

\* faulty variant: the feature flag is not looked at
AllowFrameWrappedView_IgnoringFlag(flag, META, urls, allowed, view_headers) ==
    LET allowed_urls == Join(allowed)
        whitelisted == /\ HasReferer(META)
                       /\ Urlunparse(Urlparse(META["HTTP_REFERER"]).scheme,
                                     Urlparse(META["HTTP_REFERER"]).netloc,
                                     Rstrip(Urlparse(META["HTTP_REFERER"]).path))
                              \in {Rstrip(u) : u \in urls}
    IN  SetHeader(SetHeader(view_headers, XFO,
                            IF whitelisted THEN <<"ALLOW-FROM ">> \o allowed_urls ELSE DENY),
                  CSP,
                  IF whitelisted THEN <<"frame-ancestors ">> \o allowed_urls
                  ELSE FrameAncestorsNone)

\* faulty variant: Content-Security-Policy is left denying when framing is allowed
AllowFrameWrappedView_CspNotRelaxed(flag, META, urls, allowed, view_headers) ==
    LET whitelisted == /\ flag
                       /\ HasReferer(META)
                       /\ Urlunparse(Urlparse(META["HTTP_REFERER"]).scheme,
                                     Urlparse(META["HTTP_REFERER"]).netloc,
                                     Rstrip(Urlparse(META["HTTP_REFERER"]).path))
                              \in {Rstrip(u) : u \in urls}
    IN  SetHeader(SetHeader(view_headers, XFO,
                            IF whitelisted THEN <<"ALLOW-FROM ">> \o Join(allowed) ELSE DENY),
                  CSP, FrameAncestorsNone)

\* allow_frame_from_whitelisted_url.wrapped_view: the headers of the response
AllowFrameWrappedView(flag, META, urls, allowed, view_headers) ==
    LET allowed_urls == Join(allowed)
        whitelisted == /\ flag
                       /\ HasReferer(META)
                       /\ RefererUrl(META["HTTP_REFERER"]) \in StrippedSsoUrls(urls)
        x_frame_option == IF whitelisted THEN <<"ALLOW-FROM ">> \o allowed_urls ELSE DENY
        content_security_policy ==
            IF whitelisted THEN <<"frame-ancestors ">> \o allowed_urls
            ELSE FrameAncestorsNone
    IN  SetHeader(SetHeader(view_headers, XFO, x_frame_option), CSP, content_security_policy)

\* faulty variant: a disabled configuration of the host counts too
XframeWrappedView_IgnoringEnabled(flag, META, configs, view_headers) ==
    SetHeader(view_headers, XFO,
              IF /\ flag
                 /\ HasReferer(META)
                 /\ \E c \in CurrentSet(configs) :
                        c.lti_hostname \in Hostname(Urlparse(META["HTTP_REFERER"]))
              THEN ALLOW ELSE DENY)

\* xframe_allow_whitelisted.wrapped_view: the headers of the response
XframeWrappedView(flag, META, configs, view_headers) ==
    LET whitelisted ==
            /\ flag
            /\ HasReferer(META)
            /\ \E c \in CurrentSet(configs) :
                   /\ c.lti_hostname \in Hostname(Urlparse(META["HTTP_REFERER"]))
                   /\ c.enabled
        x_frame_option == IF whitelisted THEN ALLOW ELSE DENY
    IN  SetHeader(view_headers, XFO, x_frame_option)

---------------------------------------------------------------------------
\* Inputs of the frame decorators

MaxSuffix == 2
MaxConfigs == 2

SsoUrl == <<"https", ":", "/", "/", "idp", "/", "sso">>

\* SSO sign-on urls a SAML provider's metadata may carry
SsoUrlChoices ==
    { SsoUrl,
      SsoUrl \o <<"/">>,
      SsoUrl \o <<"?", "x">> }

\* what the referer starts with
RefererPrefixes ==
    { SsoUrl,
      <<"HTTPS", ":", "/", "/", "idp", "/", "sso">>,
      <<"https", ":", "/", "/", "evil", "/", "sso">>,
      <<"https", ":", "/", "/", "idp">> }

SuffixChunks == {"/", "?", "#", ";", "x"}

\* referers of requests to a SAML-framed view
SamlReferers == {p \o s : p \in RefererPrefixes, s \in SeqsUpTo(SuffixChunks, MaxSuffix)}

\* referers of requests to an LTI-framed view (and to a SAML-framed one in SpecFrame)
LtiReferers ==
    { <<"https", ":", "/", "/", "lms", "/", "x">>,
      <<"https", ":", "/", "/", "LMS", "/", "x">>,
      <<"https", ":", "/", "/", "lms", ":", "80", "/", "x">>,
      <<"https", ":", "/", "/", "user", "@", "lms">>,
      <<"https", ":", "/", "/", "evil", "/", "lms">>,
      <<"lms">>,
      SsoUrl,
      SsoUrl \o <<"/", "?", "x">> }

\* request.META of a request whose Referer header is one of R, or is missing
Metas(R) == {<<>>} \cup {("HTTP_REFERER" :> r) : r \in R}

AllowedFromChoices ==
    { <<>>,
      << <<"https", ":", "/", "/", "a">> >>,
      << <<"https", ":", "/", "/", "a">>, <<"https", ":", "/", "/", "b">> >> }

\* the headers the wrapped view itself may have put in its response
ViewHeaders ==
    { <<>>,
      (XFO :> <<"SAMEORIGIN">>) @@ (CSP :> <<"frame-ancestors ", "'self'">>) }

LtiRows ==
    [key : {"k1", "k2"}, lti_hostname : {<<"lms">>}, enabled : BOOLEAN]
    \cup [key : {"k2"}, lti_hostname : {<<"idp">>}, enabled : {TRUE}]

NoCall == [decorator |-> "none", META |-> <<>>, view |-> <<>>, resp |-> <<>>]

FrameInit ==
    /\ features \in BOOLEAN
    /\ allowed_from \in AllowedFromChoices
    /\ sso_urls = {}
    /\ lti_configs = <<>>
    /\ call = NoCall

\* a SAMLProviderData row is stored
SaveSamlProviderData ==
    /\ \E u \in SsoUrlChoices \ sso_urls : sso_urls' = sso_urls \cup {u}
    /\ call' = NoCall
    /\ UNCHANGED <<features, allowed_from, lti_configs>>

\* an LTIProviderConfig row is stored; it becomes the current one of its key
SaveLtiProviderConfig ==
    /\ Len(lti_configs) < MaxConfigs
    /\ \E row \in LtiRows : lti_configs' = Append(lti_configs, row)
    /\ call' = NoCall
    /\ UNCHANGED <<features, allowed_from, sso_urls>>

\* a request to a view decorated with allow_frame_from_whitelisted_url
CallAllowFrame(R) ==
    /\ call = NoCall
    /\ \E META \in Metas(R), view \in ViewHeaders :
           call' = [decorator |-> "allow_frame_from_whitelisted_url",
                    META |-> META,
                    view |-> view,
                    resp |-> AllowFrameWrappedView(features, META, sso_urls,
                                                   allowed_from, view)]
    /\ UNCHANGED <<features, allowed_from, sso_urls, lti_configs>>

\* a request to a view decorated with xframe_allow_whitelisted
CallXframe(R) ==
    /\ call = NoCall
    /\ \E META \in Metas(R), view \in ViewHeaders :
           call' = [decorator |-> "xframe_allow_whitelisted",
                    META |-> META,
                    view |-> view,
                    resp |-> XframeWrappedView(features, META, lti_configs, view)]
    /\ UNCHANGED <<features, allowed_from, sso_urls, lti_configs>>

\* the response is sent
SendResponse ==
    /\ call # NoCall
    /\ call' = NoCall
    /\ UNCHANGED <<features, allowed_from, sso_urls, lti_configs>>

(***************************************************************************)
(* tpa_hint_ends_existing_session                                          *)
(***************************************************************************)

\* quote_plus on one chunk: a space becomes "+", a reserved character its
\* percent escape; quoting an escape quotes its "%" ("%26" -> "%2526")
QuoteChunk(c) ==
    CASE c = " " -> "+"
      [] c = "&" -> "%26"
      [] c = "=" -> "%3D"
      [] c = "+" -> "%2B"
      [] c = "?" -> "%3F"
      [] c = "/" -> "%2F"
      [] c = "#" -> "%23"
      [] c = "%" -> "%25"
      [] c = "%25" -> "%2525"
      [] c = "%26" -> "%2526"
      [] c = "%3D" -> "%253D"
      [] c = "%2B" -> "%252B"
      [] OTHER -> c

\* unquote_plus on one chunk
UnquoteChunk(c) ==
    CASE c = "+" -> " "
      [] c = "%26" -> "&"
      [] c = "%3D" -> "="
      [] c = "%2B" -> "+"
      [] c = "%3F" -> "?"
      [] c = "%2F" -> "/"
      [] c = "%23" -> "#"
      [] c = "%25" -> "%"
      [] c = "%2525" -> "%25"
      [] c = "%2526" -> "%26"
      [] c = "%253D" -> "%3D"
      [] c = "%252B" -> "%2B"
      [] OTHER -> c

QuotePlus(s) == [i \in 1..Len(s) |-> QuoteChunk(s[i])]
UnquotePlus(s) == [i \in 1..Len(s) |-> UnquoteChunk(s[i])]

\* urlencode(pairs): quote_plus(k) + '=' + quote_plus(v), joined by '&'
RECURSIVE Urlencode(_)
Urlencode(pairs) ==
    IF pairs = <<>> THEN <<>>
    ELSE LET kv == QuotePlus(pairs[1][1]) \o <<"=">> \o QuotePlus(pairs[1][2])
         IN  IF Len(pairs) = 1 THEN kv ELSE kv \o <<"&">> \o Urlencode(Tail(pairs))

\* QueryDict(query_string): the fields between "&", each split at its first "=",
\* names and values unquoted; get() answers the last value of a name
RECURSIVE ParseQs(_)
ParseQs(query) ==
    LET amp == Find(query, {"&"}, 1)
        field == IF amp = 0 THEN query ELSE Before(query, amp)
        rest == IF amp = 0 THEN <<>> ELSE From(query, amp + 1)
        eq == Find(field, {"="}, 1)
        name == UnquotePlus(IF eq = 0 THEN field ELSE Before(field, eq))
        value == UnquotePlus(IF eq = 0 THEN <<>> ELSE From(field, eq + 1))
        later == IF amp = 0 THEN <<>> ELSE ParseQs(rest)
    IN  IF field = <<>> THEN later ELSE later @@ (name :> value)

TpaHint == <<"tpa_hint">>
SessionCleared == <<"session_cleared">>
Yes == <<"yes">>

\* request.build_absolute_uri(reverse('logout'))
LogoutUri == <<"https", ":", "/", "/", "lms", "/", "logout">>

\* Registry.get(provider_id=...): "ValueError" (raised), "None", or a provider
\* whose drop_existing_session is set ("drop") or not ("keep")
RegistryGet(registry, provider_id) ==
    IF provider_id \in DOMAIN registry THEN registry[provider_id] ELSE "ValueError"

\* faulty variant: the return url does not carry session_cleared=yes
LogoutRedirectUrl_WithoutMarker(path, provider_id) ==
    LogoutUri \o <<"?">> \o
    Urlencode(<< << <<"redirect_url">>,
                    path \o <<"?">> \o Urlencode(<< <<TpaHint, provider_id>> >>) >> >>)

\* lines 133-150: the Location of the redirect
LogoutRedirectUrl(path, provider_id) ==
    LogoutUri \o <<"?">> \o
    Urlencode(<< << <<"redirect_url">>,
                    path \o <<"?">> \o
                    Urlencode(<< <<TpaHint, provider_id>>, <<SessionCleared, Yes>> >>) >> >>)

\* faulty variant: the ValueError of the lookup is not caught
TryRegistryGet_Uncaught(registry, provider_id) == RegistryGet(registry, provider_id)

\* lines 127-130: the lookup, a ValueError taken as no provider
TryRegistryGet(registry, provider_id) ==
    LET found == RegistryGet(registry, provider_id)
    IN  IF found = "ValueError" THEN "None" ELSE found

\* tpa_hint_ends_existing_session.inner: what the request comes to; an exception
\* that leaves the lookup leaves inner too
Inner(registry, request) ==
    LET GET == request.GET
        has_hint == TpaHint \in DOMAIN GET /\ GET[TpaHint] # <<>>
        decorator_already_processed ==
            SessionCleared \in DOMAIN GET /\ GET[SessionCleared] = Yes
        looked_up == /\ has_hint
                     /\ ~decorator_already_processed
                     /\ request.user = "authenticated"
        sso_provider == IF looked_up THEN TryRegistryGet(registry, GET[TpaHint]) ELSE "None"
    IN  IF sso_provider = "ValueError"
        THEN [kind |-> "error", location |-> <<>>, calls |-> 0, passed |-> request]
        ELSE IF sso_provider = "drop"
        THEN [kind |-> "redirect",
              location |-> LogoutRedirectUrl(request.path, GET[TpaHint]),
              calls |-> 0, passed |-> request]
        ELSE [kind |-> "view", location |-> <<>>, calls |-> 1, passed |-> request]

\* the request a browser makes for a url: fragment dropped, path and query split
RequestFor(url, who) ==
    LET h == Find(url, {"#"}, 1)
        u == IF h = 0 THEN url ELSE Before(url, h)
        q == Find(u, {"?"}, 1)
    IN  [path |-> IF q = 0 THEN u ELSE Before(u, q),
         GET |-> IF q = 0 THEN <<>> ELSE ParseQs(From(u, q + 1)),
         user |-> who]

\* the redirect_url the logout endpoint is given in a Location
RedirectUrlOf(location) ==
    LET q == Find(location, {"?"}, 1)
        GET == IF q = 0 THEN <<>> ELSE ParseQs(From(location, q + 1))
    IN  IF <<"redirect_url">> \in DOMAIN GET THEN GET[<<"redirect_url">>] ELSE <<"/">>

---------------------------------------------------------------------------
\* Inputs of the hint decorator

MaxHops == 3

\* provider ids: a SAML slug, and LTI consumer keys holding reserved characters
ProviderIds ==
    { <<"saml", "-", "a">>,
      <<"lti", "-", "a", "&", "b", "=", "c">>,
      <<"lti", "-", "a", " ", "+", "%">> }

LookupResults == {"ValueError", "None", "drop", "keep"}

Users == {"None", "anonymous", "authenticated"}

\* paths of the decorated views (login and registration pages)
ViewPaths == { <<"/", "login">>, <<"/", "register">> }

HintChoices == {<<>>} \cup ProviderIds \cup {<<"oa2">>}

\* query dictionaries of first requests: each parameter missing or present
FirstGets ==
    {<<>>}
    \cup {(TpaHint :> h) : h \in HintChoices}
    \cup {(SessionCleared :> c) : c \in {Yes, <<"no">>}}
    \cup {(TpaHint :> h) @@ (SessionCleared :> c) : h \in HintChoices, c \in {Yes, <<"no">>}}

Pending == [kind |-> "pending", location |-> <<>>, calls |-> 0, passed |-> <<>>]

NoHop == [n |-> 0, request |-> <<>>, outcome |-> Pending, redirects |-> 0]

HintInit ==
    /\ providers \in [ProviderIds -> LookupResults]
    /\ hop = NoHop

\* a browser asks for a decorated view
NewRequest ==
    /\ hop = NoHop
    /\ \E path \in ViewPaths, GET \in FirstGets, who \in Users :
           LET request == [path |-> path, GET |-> GET, user |-> who]
           IN  hop' = [n |-> 1, request |-> request, outcome |-> Pending, redirects |-> 0]
    /\ UNCHANGED providers

\* the decorated view handles the request
HandleRequest ==
    /\ hop.n > 0
    /\ hop.outcome.kind = "pending"
    /\ LET outcome == Inner(providers, hop.request)
       IN  hop' = [hop EXCEPT !.outcome = outcome,
                              !.redirects = @ + (IF outcome.kind = "redirect" THEN 1 ELSE 0)]
    /\ UNCHANGED providers

\* the browser follows the redirect: the logout endpoint, then the redirect_url,
\* as whoever the session then belongs to
FollowRedirect ==
    /\ hop.outcome.kind = "redirect"
    /\ hop.n < MaxHops
    /\ \E who \in Users :
           hop' = [hop EXCEPT !.n = @ + 1,
                              !.request = RequestFor(RedirectUrlOf(hop.outcome.location), who),
                              !.outcome = Pending]
    /\ UNCHANGED providers

\* the browser has its page, or gives up: the chain is over
EndChain ==
    /\ hop.n > 0
    /\ hop.outcome.kind # "pending"
    /\ hop' = NoHop
    /\ UNCHANGED providers

(***************************************************************************)
(* toggle_assets_lock                                                      *)
(***************************************************************************)

InvalidKeyError == "InvalidKeyError"

\* a course key as the string of it
KeyToString(course_key) == <<"course-v1", ":", course_key>>

\* CourseKey.from_string: the key, or InvalidKeyError
FromString(course_id) ==
    IF Len(course_id) = 3 /\ course_id[1] = "course-v1" /\ course_id[2] = ":"
       /\ course_id[3] \notin {":", "+", "/", " "}
    THEN course_id[3]
    ELSE InvalidKeyError

\* content_store.get_all_content_for_course(course_key): the asset keys, in order
RECURSIVE AssetsOf(_, _, _)
AssetsOf(st, course_key, from) ==
    LET later == {a \in DOMAIN st : a >= from /\ st[a].course = course_key}
    IN  IF later = {} THEN <<>>
        ELSE <<Min(later)>> \o AssetsOf(st, course_key, Min(later) + 1)

\* what a run has done so far: the store, the cache, and the calls it made
Ran(st, ca, set_attrs, evictions) ==
    [store |-> st, cache |-> ca, set_attrs |-> set_attrs, evictions |-> evictions]

\* content_store.set_attr(asset_key, 'locked', locked)
SetAttr(st, asset_key, locked) == [st EXCEPT ![asset_key].locked = locked]

\* del_cached_content(asset_key)
DelCachedContent(ca, asset_key) == [a \in DOMAIN ca \ {asset_key} |-> ca[a]]

\* lines 49-52: the loop over the assets
RECURSIVE ToggleAssets(_, _, _)
ToggleAssets(ran, assets, locked) ==
    IF assets = <<>> THEN ran
    ELSE LET asset_key == Head(assets)
         IN  ToggleAssets(Ran(SetAttr(ran.store, asset_key, locked),
                              DelCachedContent(ran.cache, asset_key),
                              Append(ran.set_attrs, <<asset_key, locked>>),
                              Append(ran.evictions, asset_key)),
                          Tail(assets), locked)

\* faulty variant: the first asset of the course is passed over
ToggleCourseAssetsLock_SkippingFirst(ran, course_key, locked) ==
    IF AssetsOf(ran.store, course_key, 1) = <<>> THEN ran
    ELSE ToggleAssets(ran, Tail(AssetsOf(ran.store, course_key, 1)), locked)

\* toggle_course_assets_lock(course_key, locked)
ToggleCourseAssetsLock(ran, course_key, locked) ==
    ToggleAssets(ran, AssetsOf(ran.store, course_key, 1), locked)

\* faulty variant: the loop over the courses ends after the first course
ToggleCourses_FirstOnly(ran, listing, locked) ==
    IF listing = <<>> THEN ran
    ELSE ToggleCourseAssetsLock(ran, Head(listing), locked)

\* lines 39-41: every course of the listing, in the listing's order
RECURSIVE ToggleCourses(_, _, _)
ToggleCourses(ran, listing, locked) ==
    IF listing = <<>> THEN ran
    ELSE ToggleCourses(ToggleCourseAssetsLock(ran, Head(listing), locked),
                       Tail(listing), locked)

\* Command.handle: options.get('course_id') is the set holding the string, empty
\* when the option is not given
Handle(st, ca, listing, course_id, locked) ==
    LET start == Ran(st, ca, <<>>, <<>>)
        given == \E c \in course_id : c # <<>>
        course_key == FromString(CHOOSE c \in course_id : TRUE)
    IN  IF given
        THEN IF course_key = InvalidKeyError
             THEN [result |-> "CommandError", ran |-> start]
             ELSE [result |-> "ok", ran |-> ToggleCourseAssetsLock(start, course_key, locked)]
        ELSE [result |-> "ok", ran |-> ToggleCourses(start, listing, locked)]

---------------------------------------------------------------------------
\* Inputs of the command

MaxAssets == 2

CourseKeys == {"c1", "c2"}

\* the orders in which the course listing may hold the courses
Listings == {<<>>, <<"c1">>, <<"c2">>, <<"c1", "c2">>, <<"c2", "c1">>}

\* --course-id: not given, or a string
CourseIdOptions ==
    { {},
      {<<>>},
      {<<"bad">>},
      {<<"course-v1", ":">>},
      {KeyToString("c1")},
      {KeyToString("c2")},
      {KeyToString("c3")} }

NoCmd == [ran |-> FALSE]

LockInit ==
    /\ store = <<>>
    /\ cache = <<>>
    /\ courses \in Listings
    /\ cmd = NoCmd

\* content-management code stores an asset under a course
UploadAsset ==
    /\ Len(store) < MaxAssets
    /\ \E course \in CourseKeys, locked \in BOOLEAN :
           store' = Append(store, [course |-> course, locked |-> locked])
    /\ cmd' = NoCmd
    /\ UNCHANGED <<cache, courses>>

\* a request for an asset finds it in the store and caches it
ServeAsset ==
    /\ \E a \in DOMAIN store \ DOMAIN cache :
           cache' = (a :> store[a].locked) @@ cache
    /\ cmd' = NoCmd
    /\ UNCHANGED <<store, courses>>

\* manage.py cms toggle_assets_lock [--course-id ID] [--lock | --unlock]
RunCommand ==
    /\ \E course_id \in CourseIdOptions, locked \in BOOLEAN :
           LET done == Handle(store, cache, courses, course_id, locked)
           IN  /\ store' = done.ran.store
               /\ cache' = done.ran.cache
               /\ cmd' = [ran |-> TRUE, course_id |-> course_id, locked |-> locked,
                          result |-> done.result,
                          set_attrs |-> done.ran.set_attrs,
                          evictions |-> done.ran.evictions,
                          before |-> [store |-> store, cache |-> cache]]
    /\ UNCHANGED courses

(***************************************************************************)
(* The toggler step by step, beside requests that cache assets             *)
(***************************************************************************)

MaxReaders == 1

Readers == 1..MaxReaders

TogglerIdle == [phase |-> "idle", todo |-> <<>>, locked |-> FALSE, processed |-> {}]

NotReading == [asset |-> 0, locked |-> FALSE]

ConcInit ==
    /\ tpc = TogglerIdle
    /\ rpc = [r \in Readers |-> NotReading]

\* lines 46-47: the toggler lists the assets of the course
TogglerStart ==
    /\ tpc.phase = "idle"
    /\ \E course_key \in CourseKeys, locked \in BOOLEAN :
           LET assets == AssetsOf(store, course_key, 1)
           IN  tpc' = [phase |-> IF assets = <<>> THEN "done" ELSE "set",
                       todo |-> assets, locked |-> locked, processed |-> {}]
    /\ UNCHANGED <<store, cache, rpc>>

\* line 50: content_store.set_attr on the next asset
TogglerSetAttr ==
    /\ tpc.phase = "set"
    /\ store' = SetAttr(store, Head(tpc.todo), tpc.locked)
    /\ tpc' = [tpc EXCEPT !.phase = "del"]
    /\ UNCHANGED <<cache, rpc>>

\* line 52: del_cached_content on that asset, then the next asset or the end
TogglerDelCached ==
    /\ tpc.phase = "del"
    /\ cache' = DelCachedContent(cache, Head(tpc.todo))
    /\ tpc' = [tpc EXCEPT !.phase = IF Tail(tpc.todo) = <<>> THEN "done" ELSE "set",
                          !.todo = Tail(@),
                          !.processed = @ \cup {Head(tpc.todo)}]
    /\ UNCHANGED <<store, rpc>>

\* a request misses the cache and reads the asset from the store
ReaderLoad ==
    /\ \E r \in Readers, a \in DOMAIN store \ DOMAIN cache :
           /\ rpc[r] = NotReading
           /\ rpc' = [rpc EXCEPT ![r] = [asset |-> a, locked |-> store[a].locked]]
    /\ UNCHANGED <<store, cache, tpc>>

\* the request puts what it read in the cache
ReaderSetCached ==
    /\ \E r \in Readers :
           /\ rpc[r] # NotReading
           /\ cache' = (rpc[r].asset :> rpc[r].locked) @@ cache
           /\ rpc' = [rpc EXCEPT ![r] = NotReading]
    /\ UNCHANGED <<store, tpc>>

(***************************************************************************)
(* Specifications                                                          *)
(***************************************************************************)

FrameIdle ==
    /\ features = FALSE
    /\ allowed_from = <<>>
    /\ sso_urls = {}
    /\ lti_configs = <<>>
    /\ call = NoCall

HintIdle ==
    /\ providers = [p \in ProviderIds |-> "None"]
    /\ hop = NoHop

LockIdle ==
    /\ store = <<>>
    /\ cache = <<>>
    /\ courses = <<>>
    /\ cmd = NoCmd

\* views framed for SAML providers
SamlInit == FrameInit /\ HintIdle /\ LockIdle /\ ConcInit

SamlNext ==
    \/ SaveSamlProviderData /\ UNCHANGED <<hintVars, lockVars, concVars>>
    \/ CallAllowFrame(SamlReferers) /\ UNCHANGED <<hintVars, lockVars, concVars>>
    \/ SendResponse /\ UNCHANGED <<hintVars, lockVars, concVars>>

SpecSaml == SamlInit /\ [][SamlNext]_vars

\* both frame decorators, with SAML and LTI configuration
FrameNext ==
    \/ SaveSamlProviderData /\ UNCHANGED <<hintVars, lockVars, concVars>>
    \/ SaveLtiProviderConfig /\ UNCHANGED <<hintVars, lockVars, concVars>>
    \/ CallAllowFrame(LtiReferers) /\ UNCHANGED <<hintVars, lockVars, concVars>>
    \/ CallXframe(LtiReferers) /\ UNCHANGED <<hintVars, lockVars, concVars>>
    \/ SendResponse /\ UNCHANGED <<hintVars, lockVars, concVars>>

SpecFrame == SamlInit /\ [][FrameNext]_vars

\* the hint decorator and the redirects it issues
HintSpecInit == FrameIdle /\ HintInit /\ LockIdle /\ ConcInit

HintNext ==
    \/ NewRequest /\ UNCHANGED <<frameVars, lockVars, concVars>>
    \/ HandleRequest /\ UNCHANGED <<frameVars, lockVars, concVars>>
    \/ FollowRedirect /\ UNCHANGED <<frameVars, lockVars, concVars>>
    \/ EndChain /\ UNCHANGED <<frameVars, lockVars, concVars>>

SpecHint == HintSpecInit /\ [][HintNext]_vars

\* the management command, run to completion
LockSpecInit == FrameIdle /\ HintIdle /\ LockInit /\ ConcInit

LockNext ==
    \/ UploadAsset /\ UNCHANGED <<frameVars, hintVars, concVars>>
    \/ ServeAsset /\ UNCHANGED <<frameVars, hintVars, concVars>>
    \/ RunCommand /\ UNCHANGED <<frameVars, hintVars, concVars>>

SpecLock == LockSpecInit /\ [][LockNext]_vars

\* the toggler interleaved with asset requests
ConcNext ==
    \/ UploadAsset /\ UNCHANGED <<frameVars, hintVars, concVars>>
    \/ TogglerStart /\ UNCHANGED <<frameVars, hintVars, courses, cmd>>
    \/ TogglerSetAttr /\ UNCHANGED <<frameVars, hintVars, courses, cmd>>
    \/ TogglerDelCached /\ UNCHANGED <<frameVars, hintVars, courses, cmd>>
    \/ ReaderLoad /\ UNCHANGED <<frameVars, hintVars, courses, cmd>>
    \/ ReaderSetCached /\ UNCHANGED <<frameVars, hintVars, courses, cmd>>

SpecConc == LockSpecInit /\ [][ConcNext]_vars

(***************************************************************************)
(* Properties                                                              *)
(***************************************************************************)

AllowFrameCalled == call.decorator = "allow_frame_from_whitelisted_url"
XframeCalled == call.decorator = "xframe_allow_whitelisted"
Referer == call.META["HTTP_REFERER"]

\* C6: with ENABLE_THIRD_PARTY_AUTH disabled, whatever the referer, the SAML and
\* LTI configuration and the view's response, both frame decorators answer
\* X-Frame-Options: DENY, and allow_frame_from_whitelisted_url also answers
\* Content-Security-Policy: frame-ancestors 'none'.
C6_FlagDisabledDenies ==
    (~features /\ call # NoCall) =>
        /\ XFO \in DOMAIN call.resp
        /\ call.resp[XFO] = DENY
        /\ AllowFrameCalled =>
               (CSP \in DOMAIN call.resp /\ call.resp[CSP] = FrameAncestorsNone)

\* C6 witness: the flag is off and a view is asked for from a known SSO url
C6_Witness ==
    /\ ~features
    /\ AllowFrameCalled
    /\ HasReferer(call.META)
    /\ Referer \in sso_urls
    /\ call.resp[XFO] = DENY

\* the referer as the code compares it: scheme, "://", netloc and the path without
\* its parameters and without any of its trailing slashes
SchemeNetlocPath(parsed) ==
    parsed.scheme \o <<":", "/", "/">> \o parsed.netloc \o Rstrip(parsed.path)

FramingAllowed ==
    /\ call.resp[XFO] = <<"ALLOW-FROM ">> \o Join(allowed_from)
    /\ call.resp[CSP] = <<"frame-ancestors ">> \o Join(allowed_from)

WithoutSlash(base) ==
    IF base # <<>> /\ base[Len(base)] = "/" THEN Before(base, Len(base)) ELSE base

\* a url without its query string and without one trailing slash, its scheme in
\* lower case
WithoutQueryAndSlash(url) ==
    WithoutSlash(SplitOn(SplitScheme(url).scheme \o <<":">> \o SplitScheme(url).rest, "?").head)

C10_HeadersAgree ==
    AllowFrameCalled =>
        /\ {XFO, CSP} \subseteq DOMAIN call.resp
        /\ (call.resp[XFO] = DENY) <=> (call.resp[CSP] = FrameAncestorsNone)
        /\ call.resp[XFO] # DENY =>
               /\ Head(call.resp[XFO]) = "ALLOW-FROM "
               /\ Head(call.resp[CSP]) = "frame-ancestors "
               /\ Tail(call.resp[XFO]) = Tail(call.resp[CSP])
               /\ Tail(call.resp[XFO]) = Join(allowed_from)

\* C10 witness: framing is allowed from two origins in a response whose view had
\* set both headers itself
C10_Witness ==
    /\ AllowFrameCalled
    /\ Len(allowed_from) = 2
    /\ XFO \in DOMAIN call.view
    /\ call.resp[XFO] # DENY

\* the rows that are the latest of their key
IsCurrent(i) == \A k \in (i + 1)..Len(lti_configs) : lti_configs[k].key # lti_configs[i].key

\* C8: xframe_allow_whitelisted answers X-Frame-Options: ALLOW exactly when the
\* flag is enabled, a referer is present and its hostname is the hostname of an
\* LTI provider configuration that is current and enabled; otherwise DENY.  It
\* leaves Content-Security-Policy as the view set it.
C8_AllowExactlyEnabledLtiHost ==
    XframeCalled =>
        /\ call.resp[XFO] =
               IF /\ features
                  /\ HasReferer(call.META)
                  /\ \E i \in 1..Len(lti_configs) :
                         /\ IsCurrent(i)
                         /\ lti_configs[i].enabled
                         /\ {lti_configs[i].lti_hostname} = Hostname(Urlparse(Referer))
               THEN ALLOW
               ELSE DENY
        /\ (CSP \in DOMAIN call.resp) <=> (CSP \in DOMAIN call.view)
        /\ CSP \in DOMAIN call.view => call.resp[CSP] = call.view[CSP]

\* C8 witness: the referer's host was enabled once, its current configuration is
\* disabled, and the answer is DENY
C8_Witness ==
    /\ XframeCalled
    /\ features
    /\ HasReferer(call.META)
    /\ Hostname(Urlparse(Referer)) = {<<"lms">>}
    /\ Len(lti_configs) = 2
    /\ lti_configs[1] = [key |-> "k1", lti_hostname |-> <<"lms">>, enabled |-> TRUE]
    /\ lti_configs[2] = [key |-> "k1", lti_hostname |-> <<"lms">>, enabled |-> FALSE]
    /\ call.resp[XFO] = DENY

Handled == hop.n > 0 /\ hop.outcome.kind # "pending"
HintOf(request) == request.GET[TpaHint]
HasHint(request) == TpaHint \in DOMAIN request.GET /\ HintOf(request) # <<>>
ClearedYes(request) ==
    SessionCleared \in DOMAIN request.GET /\ request.GET[SessionCleared] = Yes

\* the provider lookup for the hint returns a provider with drop_existing_session set
DropsSession(request) == RegistryGet(providers, HintOf(request)) = "drop"

RedirectsToLogout ==
    /\ hop.outcome.kind = "redirect"
    /\ SubSeq(hop.outcome.location, 1, Len(LogoutUri) + 1) = LogoutUri \o <<"?">>

ViewCalledOnce ==
    /\ hop.outcome.kind = "view"
    /\ hop.outcome.calls = 1
    /\ hop.outcome.passed = hop.request

\* C1 (as amended): the decorator redirects to the logout endpoint exactly when
\* tpa_hint is present and not empty, session_cleared is not "yes" (it is missing
\* or has another value), the user is authenticated, and the lookup of the hint
\* returns a provider with drop_existing_session set.  Otherwise, an unknown
\* provider id included, no error comes out and the view is called once with the
\* same request, its response returned.
C1_RedirectsExactlyWhenNotClearedYes ==
    Handled =>
        IF /\ HasHint(hop.request)
           /\ ~ClearedYes(hop.request)
           /\ hop.request.user = "authenticated"
           /\ DropsSession(hop.request)
        THEN RedirectsToLogout
        ELSE ViewCalledOnce

\* C1 witness: a request with session_cleared=no is redirected
C1_Witness ==
    /\ Handled
    /\ SessionCleared \in DOMAIN hop.request.GET
    /\ ~ClearedYes(hop.request)
    /\ RedirectsToLogout

\* C1 (as stated): the decorator redirects exactly when tpa_hint is present and
\* not empty, the session_cleared marker is absent, the user is authenticated and
\* the lookup returns a provider with drop_existing_session set; otherwise the
\* view is called once with the same request.
C1_Original ==
    Handled =>
        IF /\ HasHint(hop.request)
           /\ SessionCleared \notin DOMAIN hop.request.GET
           /\ hop.request.user = "authenticated"
           /\ DropsSession(hop.request)
        THEN RedirectsToLogout
        ELSE ViewCalledOnce

\* the request that comes back from the logout endpoint for a Location
ReturnOf(location) == RequestFor(RedirectUrlOf(location), "anonymous")

\* C2: along a chain of requests (a request, then for each redirect the logout
\* endpoint and the redirect_url given to it) the decorator redirects at most
\* once: the return url of a redirect leads back to the same path with the same
\* tpa_hint and session_cleared=yes, a request carrying session_cleared=yes is
\* never redirected whatever its hint, user and provider configuration, and so
\* the request that follows a redirect runs the wrapped view.
C2_RedirectsAtMostOnce ==
    /\ hop.redirects <= 1
    /\ hop.outcome.kind = "redirect" =>
           /\ ReturnOf(hop.outcome.location).path = hop.request.path
           /\ DOMAIN ReturnOf(hop.outcome.location).GET = {TpaHint, SessionCleared}
           /\ HintOf(ReturnOf(hop.outcome.location)) = HintOf(hop.request)
           /\ ClearedYes(ReturnOf(hop.outcome.location))
    /\ (Handled /\ ClearedYes(hop.request)) => ViewCalledOnce
    /\ (Handled /\ hop.n > 1) => ViewCalledOnce

\* C2 witness: after one redirect the user is logged in again, the hinted provider
\* (its id full of reserved characters) still drops sessions, and the view runs
C2_Witness ==
    /\ hop.n = 2
    /\ hop.redirects = 1
    /\ hop.outcome.kind = "view"
    /\ hop.request.user = "authenticated"
    /\ HintOf(hop.request) = <<"lti", "-", "a", "&", "b", "=", "c">>
    /\ DropsSession(hop.request)

\* the string given as --course-id
GivenId == CHOOSE c \in cmd.course_id : TRUE

AssetsIn(st, course_keys) == {a \in DOMAIN st : st[a].course \in course_keys}
Evicted == {cmd.evictions[i] : i \in 1..Len(cmd.evictions)}

\* C3: after toggle_course_assets_lock(course, L), whatever the lock values were
\* before (those left by a run with the opposite value included), every asset of
\* the course has locked = L, exactly one eviction was made for each of its N
\* asset keys and no other, and none of them is left in the cache.
C3_AllAssetsToggledAndEvicted ==
    (cmd.ran /\ cmd.course_id # {} /\ FromString(GivenId) # InvalidKeyError) =>
        LET assets == AssetsIn(store, {FromString(GivenId)})
        IN  /\ cmd.result = "ok"
            /\ \A a \in assets : store[a].locked = cmd.locked
            /\ Len(cmd.evictions) = Cardinality(assets)
            /\ Evicted = assets
            /\ assets \cap DOMAIN cache = {}
            /\ DOMAIN store = DOMAIN cmd.before.store

\* C3 witness: a course of two assets, both locked the opposite way and one of
\* them cached before the run
C3_Witness ==
    /\ cmd.ran
    /\ cmd.course_id = {KeyToString("c1")}
    /\ Len(store) = 2
    /\ \A a \in DOMAIN store :
           /\ store[a].course = "c1"
           /\ cmd.before.store[a].locked = ~cmd.locked
    /\ DOMAIN cmd.before.cache # {}

\* C4: for every --course-id string that is no course key, the empty string
\* included, the command ends with a CommandError and changes nothing: no
\* set_attr, no eviction.
C4_InvalidIdChangesNothing ==
    (cmd.ran /\ cmd.course_id # {} /\ FromString(GivenId) = InvalidKeyError) =>
        /\ cmd.result = "CommandError"
        /\ cmd.set_attrs = <<>>
        /\ cmd.evictions = <<>>
        /\ store = cmd.before.store
        /\ cache = cmd.before.cache

\* the command run once for each course of a listing, with the course's id
RECURSIVE OncePerCourse(_, _, _)
OncePerCourse(ran, listing, locked) ==
    IF listing = <<>> THEN ran
    ELSE LET one == Handle(ran.store, ran.cache, courses, {KeyToString(Head(listing))},
                           locked).ran
         IN  OncePerCourse(Ran(one.store, one.cache,
                               ran.set_attrs \o one.set_attrs,
                               ran.evictions \o one.evictions),
                           Tail(listing), locked)

Listed == {courses[i] : i \in 1..Len(courses)}

\* C9: without --course-id the command ends as running it once per listed course
\* with that course's id and the same lock value ends: the same locked attributes,
\* the same cache and the same set of evicted keys; assets of courses that are not
\* listed keep their attributes.
C9_AllCoursesAsOncePerCourse ==
    (cmd.ran /\ cmd.course_id = {}) =>
        LET each == OncePerCourse(Ran(cmd.before.store, cmd.before.cache, <<>>, <<>>),
                                  courses, cmd.locked)
        IN  /\ cmd.result = "ok"
            /\ store = each.store
            /\ cache = each.cache
            /\ Evicted = {each.evictions[i] : i \in 1..Len(each.evictions)}
            /\ Len(cmd.evictions) = Len(each.evictions)
            /\ \A a \in DOMAIN store \ AssetsIn(store, Listed) :
                   store[a] = cmd.before.store[a]

\* C9 witness: two listed courses, each with an asset locked the opposite way
C9_Witness ==
    /\ cmd.ran
    /\ cmd.course_id = {}
    /\ Len(courses) = 2
    /\ Len(store) = 2
    /\ store[1].course # store[2].course
    /\ \A a \in DOMAIN store : cmd.before.store[a].locked = ~cmd.locked

\* C5: once the toggler has finished, no cache entry of an asset it processed
\* holds a locked value other than the one now stored for that asset, however
\* its steps were interleaved with requests that read and cache assets.
C5_NoStaleCacheEntryAfterToggle ==
    tpc.phase = "done" =>
        \A a \in tpc.processed \cap DOMAIN cache : cache[a] = store[a].locked

====
